---- MODULE Spec2Model ----
(***************************************************************************)
(* Model of multipymenu.MultiPySimpleMenu (multipysimplemenu.py): the      *)
(* dataclass fields, the _printable_options property and the show() loop.  *)
(* Strings are sequences of one-character strings.                         *)
(***************************************************************************)
EXTENDS Integers, Sequences, FiniteSets, TLC

\* ------------------------------------------------------------------ bounds
\* Longest search buffer the key source is allowed to build (marker included).
MaxBuf == 3
\* Number of show() invocations on the menu object.
MaxShows == 2
\* Largest configured default_option that is tried.
MaxDefault == 1
\* Longest run of ARROW_DOWN keys from the start of a show() that is counted.
MaxDowns == 5

\* ------------------------------------------------------ inputs of the model
\* Printable characters the key source can deliver.
Chars == {"a", ".", "\t"}

\* Option lists the menu is constructed with.
OptionLists ==
  { << <<"a", "b">>, <<"A", "b">>, <<".", "a">>, <<"a", "b">> >>,
    << <<"a">> >> }

DefaultOptions == {0, MaxDefault}

\* (lines, columns) the terminal can have.
Geometries == { <<4, 8>>, <<6, 8>> }

\* ---------------------------------------------------------- key taxonomy
SpecialKeys == {"INTRO", "ARROW_UP", "ARROW_DOWN", "SLASH", "BACKSPACE", "OTHER"}

Keys == SpecialKeys \cup Chars

\* isinstance(key, str): the named special keys are not str, characters are.
is_str(key) == key \in Chars

\* ------------------------------------------------------------ multipymath
Min(a, b) == IF a < b THEN a ELSE b

Max(a, b) == IF a > b THEN a ELSE b

clamp(n, smallest, largest) == Max(smallest, Min(n, largest))

\* --------------------------------------------------------------- re module
\* The characters of Chars that re.escape prefixes with a backslash.
MetaChars == {".", "\t"}

\* Mutation of re_escape: the pattern is handed to re.match unescaped.
re_escape_identity(s) == s

RECURSIVE re_escape(_)
re_escape(s) ==
  IF s = <<>> THEN <<>>
  ELSE (IF Head(s) \in MetaChars THEN <<"\\", Head(s)>> ELSE <<Head(s)>>)
       \o re_escape(Tail(s))

\* re.match(pattern, string) is not None: the pattern matches at the start of
\* the string.  "\\" c is the literal c, "." is any character, anything else
\* is itself.
RECURSIVE re_match(_, _)
re_match(pattern, string) ==
  IF pattern = <<>> THEN TRUE
  ELSE IF Head(pattern) = "\\"
    THEN /\ Len(pattern) >= 2
         /\ string # <<>>
         /\ Head(string) = pattern[2]
         /\ re_match(SubSeq(pattern, 3, Len(pattern)), Tail(string))
  ELSE IF Head(pattern) = "."
    THEN /\ string # <<>>
         /\ re_match(Tail(pattern), Tail(string))
  ELSE /\ string # <<>>
       /\ Head(string) = Head(pattern)
       /\ re_match(Tail(pattern), Tail(string))

\* ------------------------------------------------------------------ state
VARIABLES
  options,              \* MenuConfig: option labels
  default_option,       \* MenuConfig: configured default index
  clear_on_exit,        \* MenuConfig: clear console on exit
  selected_option,      \* _selected_option
  searching_buffer,     \* _searching_buffer
  terminal_last_size,   \* (_terminal_last_line_size, _terminal_last_column_size)
  terminal_size,        \* what os.get_terminal_size() reports now
  pc,                   \* "idle", "poll", "read", "returned", "failed"
  key,                  \* the key event dispatched last ("" before any)
  result,               \* value show() returned: Pending, NoSelection or Index(i)
  inits,                \* kshandler.init() calls of the current show()
  deinits,              \* kshandler.deinit() calls of the current show()
  calls,                \* Line Renderer calls issued by the latest step
  shows,                \* show() invocations so far
  raised,               \* the call whose exception left show(), "" if none
  downs                 \* history: keys read by this show() while it started at
                        \* index 0 without a search and every key was ARROW_DOWN;
                        \* Untracked otherwise

vars == << options, default_option, clear_on_exit, selected_option,
           searching_buffer, terminal_last_size, terminal_size, pc, key,
           result, inits, deinits, calls, shows, raised, downs >>

config == << options, default_option, clear_on_exit >>

\* ---------------------------------------------------------------- helpers
\* What show() has returned: nothing yet, None, or an int.
Pending == [kind |-> "pending"]

NoSelection == [kind |-> "None"]

Index(i) == [kind |-> "int", value |-> i]

Untracked == 0 - 1

\* Mutation of searching: the marker alone does not count as a search.
searching_needs_pattern(buffer) == Len(buffer) > 1

\* _searching
searching(buffer) == Len(buffer) > 0

\* The filtering half of _printable_options: the options kept.
available_options(opts, buffer) ==
  IF searching(buffer)
    THEN SelectSeq(opts, LAMBDA option : re_match(re_escape(Tail(buffer)), option))
    ELSE opts

\* Mutation of printable_options: the highlight goes to the option whose place
\* in the whole list is the selection index.
printable_options_by_place_in_list(opts, buffer, selected) ==
  LET available == available_options(opts, buffer)
  IN  [ index \in 1 .. Len(available) |->
          <<"PRECHAR">>
          \o (IF selected + 1 \in DOMAIN opts /\ available[index] = opts[selected + 1]
                THEN <<"HIGHLIGHT">> ELSE <<>>)
          \o available[index]
          \o <<"ENDC">> ]

\* The styling half of _printable_options: prechar, highlight, text, ENDC.
printable_options(opts, buffer, selected) ==
  LET available == available_options(opts, buffer)
  IN  [ index \in 1 .. Len(available) |->
          <<"PRECHAR">>
          \o (IF index - 1 = selected THEN <<"HIGHLIGHT">> ELSE <<>>)
          \o available[index]
          \o <<"ENDC">> ]

\* _terminal_resized
terminal_resized ==
  \/ terminal_size[1] # terminal_last_size[1]
  \/ terminal_size[2] # terminal_last_size[2]

print_lines(lines, buffer) == [fn |-> "print_lines", lines |-> lines, buf |-> buffer]

delete_all_lines(buffer, n) == [fn |-> "delete_all_lines", buf |-> buffer, n |-> n]

delete_lines(n) == [fn |-> "delete_lines", n |-> n]

clear_terminal == [fn |-> "clear_terminal"]

cursor_backwards(times) == [fn |-> "cursor_backwards", times |-> times]

\* ------------------------------------------------------------ construction
\* The dataclass defaults: _selected_option is bound to the class-level name
\* default_option (0) when the class body runs, _searching_buffer to "", the
\* geometry snapshot to the terminal size at import time.
Init ==
  /\ options \in OptionLists
  /\ default_option \in DefaultOptions
  /\ clear_on_exit \in BOOLEAN
  /\ selected_option = 0
  /\ searching_buffer = <<>>
  /\ terminal_last_size \in Geometries
  /\ terminal_size \in Geometries
  /\ pc = "idle"
  /\ key = ""
  /\ result = Pending
  /\ inits = 0
  /\ deinits = 0
  /\ calls = <<>>
  /\ shows = 0
  /\ raised = ""
  /\ downs = Untracked

\* ------------------------------------------------------------------ show()
\* Lines 88-91: acquire the key source and print the first frame.
ShowBegin ==
  /\ pc \in {"idle", "returned", "failed"}
  /\ shows < MaxShows
  /\ shows' = shows + 1
  /\ inits' = 1
  /\ deinits' = 0
  /\ key' = ""
  /\ result' = Pending
  /\ calls' = << print_lines(printable_options(options, searching_buffer, selected_option),
                             searching_buffer) >>
  /\ pc' = "poll"
  /\ raised' = ""
  /\ downs' = IF selected_option = 0 /\ ~searching(searching_buffer) THEN 0 ELSE Untracked
  /\ UNCHANGED << config, selected_option, searching_buffer,
                  terminal_last_size, terminal_size >>

\* Lines 88-91 when the first print_lines raises: it is outside the try.
ShowBeginFails ==
  /\ pc \in {"idle", "returned", "failed"}
  /\ shows < MaxShows
  /\ shows' = shows + 1
  /\ inits' = 1
  /\ deinits' = 0
  /\ key' = ""
  /\ result' = Pending
  /\ calls' = <<>>
  /\ pc' = "failed"
  /\ raised' = "print_lines"
  /\ downs' = Untracked
  /\ UNCHANGED << config, selected_option, searching_buffer,
                  terminal_last_size, terminal_size >>

\* Lines 96-100: the resize check at the top of the loop.
Poll ==
  /\ pc = "poll"
  /\ IF terminal_resized
       THEN /\ terminal_last_size' = terminal_size
            /\ calls' = << clear_terminal,
                           print_lines(printable_options(options, searching_buffer,
                                                         selected_option),
                                       searching_buffer) >>
       ELSE /\ terminal_last_size' = terminal_last_size
            /\ calls' = <<>>
  /\ pc' = "read"
  /\ UNCHANGED << config, selected_option, searching_buffer, terminal_size,
                  key, result, inits, deinits, shows, raised, downs >>

\* Lines 96-100 when the geometry probe or the redraw raises: finally deinit.
PollFails ==
  /\ pc = "poll"
  /\ \/ /\ raised' = "get_terminal_size"
        /\ terminal_last_size' = terminal_last_size
        /\ calls' = <<>>
     \/ /\ terminal_resized
        /\ raised' = "clear_terminal"
        /\ terminal_last_size' = terminal_size
        /\ calls' = <<>>
     \/ /\ terminal_resized
        /\ raised' = "print_lines"
        /\ terminal_last_size' = terminal_size
        /\ calls' = << clear_terminal >>
  /\ deinits' = deinits + 1
  /\ pc' = "failed"
  /\ UNCHANGED << config, selected_option, searching_buffer,
                  terminal_size, key, result, inits, shows, downs >>

\* Mutation of Dispatch: SLASH restarts the search whether or not one is active.
Dispatch_slash_resets(selected, buffer, k) ==
  IF k = "ARROW_UP" THEN [sel |-> selected - 1, buf |-> buffer, cur |-> <<>>]
  ELSE IF k = "ARROW_DOWN" THEN [sel |-> selected + 1, buf |-> buffer, cur |-> <<>>]
  ELSE IF k = "SLASH"
    THEN [sel |-> selected, buf |-> <<"/">>, cur |-> <<>>]
  ELSE IF searching(buffer)
    THEN IF k = "BACKSPACE"
           THEN [sel |-> selected,
                 buf |-> SubSeq(buffer, 1, Len(buffer) - 1),
                 cur |-> << cursor_backwards(IF buffer[Len(buffer)] = "\t"
                                               THEN 7 ELSE 1) >>]
         ELSE IF is_str(k)
           THEN [sel |-> selected, buf |-> buffer \o <<k>>, cur |-> <<>>]
         ELSE [sel |-> selected, buf |-> buffer, cur |-> <<>>]
  ELSE [sel |-> selected, buf |-> buffer, cur |-> <<>>]

\* Mutation of Dispatch: ARROW_DOWN moves two entries down.
Dispatch_down_by_two(selected, buffer, k) ==
  IF k = "ARROW_UP" THEN [sel |-> selected - 1, buf |-> buffer, cur |-> <<>>]
  ELSE IF k = "ARROW_DOWN" THEN [sel |-> selected + 2, buf |-> buffer, cur |-> <<>>]
  ELSE IF k = "SLASH" /\ ~searching(buffer)
    THEN [sel |-> selected, buf |-> <<"/">>, cur |-> <<>>]
  ELSE IF searching(buffer)
    THEN IF k = "BACKSPACE"
           THEN [sel |-> selected,
                 buf |-> SubSeq(buffer, 1, Len(buffer) - 1),
                 cur |-> << cursor_backwards(IF buffer[Len(buffer)] = "\t"
                                               THEN 7 ELSE 1) >>]
         ELSE IF is_str(k)
           THEN [sel |-> selected, buf |-> buffer \o <<k>>, cur |-> <<>>]
         ELSE [sel |-> selected, buf |-> buffer, cur |-> <<>>]
  ELSE [sel |-> selected, buf |-> buffer, cur |-> <<>>]

\* Mutation of Dispatch: a character starts a search by itself.
Dispatch_appends_always(selected, buffer, k) ==
  IF k = "ARROW_UP" THEN [sel |-> selected - 1, buf |-> buffer, cur |-> <<>>]
  ELSE IF k = "ARROW_DOWN" THEN [sel |-> selected + 1, buf |-> buffer, cur |-> <<>>]
  ELSE IF k = "SLASH" /\ ~searching(buffer)
    THEN [sel |-> selected, buf |-> <<"/">>, cur |-> <<>>]
  ELSE IF searching(buffer)
    THEN IF k = "BACKSPACE"
           THEN [sel |-> selected,
                 buf |-> SubSeq(buffer, 1, Len(buffer) - 1),
                 cur |-> << cursor_backwards(IF buffer[Len(buffer)] = "\t"
                                               THEN 7 ELSE 1) >>]
         ELSE IF is_str(k)
           THEN [sel |-> selected, buf |-> buffer \o <<k>>, cur |-> <<>>]
         ELSE [sel |-> selected, buf |-> buffer, cur |-> <<>>]
  ELSE IF is_str(k)
    THEN [sel |-> selected, buf |-> buffer \o <<k>>, cur |-> <<>>]
  ELSE [sel |-> selected, buf |-> buffer, cur |-> <<>>]

\* Mutation of Dispatch: a removed tab moves the cursor one column.
Dispatch_tab_is_one_column(selected, buffer, k) ==
  IF k = "ARROW_UP" THEN [sel |-> selected - 1, buf |-> buffer, cur |-> <<>>]
  ELSE IF k = "ARROW_DOWN" THEN [sel |-> selected + 1, buf |-> buffer, cur |-> <<>>]
  ELSE IF k = "SLASH" /\ ~searching(buffer)
    THEN [sel |-> selected, buf |-> <<"/">>, cur |-> <<>>]
  ELSE IF searching(buffer)
    THEN IF k = "BACKSPACE"
           THEN [sel |-> selected,
                 buf |-> SubSeq(buffer, 1, Len(buffer) - 1),
                 cur |-> << cursor_backwards(1) >>]
         ELSE IF is_str(k)
           THEN [sel |-> selected, buf |-> buffer \o <<k>>, cur |-> <<>>]
         ELSE [sel |-> selected, buf |-> buffer, cur |-> <<>>]
  ELSE [sel |-> selected, buf |-> buffer, cur |-> <<>>]

\* Lines 117-130: the effect of a key other than INTRO on index and buffer.
Dispatch(selected, buffer, k) ==
  IF k = "ARROW_UP" THEN [sel |-> selected - 1, buf |-> buffer, cur |-> <<>>]
  ELSE IF k = "ARROW_DOWN" THEN [sel |-> selected + 1, buf |-> buffer, cur |-> <<>>]
  ELSE IF k = "SLASH" /\ ~searching(buffer)
    THEN [sel |-> selected, buf |-> <<"/">>, cur |-> <<>>]
  ELSE IF searching(buffer)
    THEN IF k = "BACKSPACE"
           THEN [sel |-> selected,
                 buf |-> SubSeq(buffer, 1, Len(buffer) - 1),
                 cur |-> << cursor_backwards(IF buffer[Len(buffer)] = "\t"
                                               THEN 7 ELSE 1) >>]
         ELSE IF is_str(k)
           THEN [sel |-> selected, buf |-> buffer \o <<k>>, cur |-> <<>>]
         ELSE [sel |-> selected, buf |-> buffer, cur |-> <<>>]
  ELSE [sel |-> selected, buf |-> buffer, cur |-> <<>>]

\* Mutation of Handle: the upper clamp bound is the length, not the last index.
Handle_off_by_one(selected, buffer, k) ==
  LET d == Dispatch(selected, buffer, k)
  IN  [sel |-> clamp(d.sel, 0, Len(printable_options(options, d.buf, d.sel))),
       buf |-> d.buf,
       cur |-> d.cur]

\* Mutation of Handle: the clamp uses the list that was visible before the key.
Handle_clamp_to_old_list(selected, buffer, k) ==
  LET d == Dispatch(selected, buffer, k)
  IN  [sel |-> clamp(d.sel, 0, Len(printable_options(options, buffer, d.sel)) - 1),
       buf |-> d.buf,
       cur |-> d.cur]

\* Mutation of Handle: a change of the buffer sends the selection to the top.
Handle_resets_on_filter(selected, buffer, k) ==
  LET d == Dispatch(selected, buffer, k)
  IN  [sel |-> IF d.buf # buffer THEN 0
               ELSE clamp(d.sel, 0, Len(printable_options(options, d.buf, d.sel)) - 1),
       buf |-> d.buf,
       cur |-> d.cur]

\* Lines 117-132: dispatch, then the clamp into the visible range.
Handle(selected, buffer, k) ==
  LET d == Dispatch(selected, buffer, k)
  IN  [sel |-> clamp(d.sel, 0, Len(printable_options(options, d.buf, d.sel)) - 1),
       buf |-> d.buf,
       cur |-> d.cur]

\* Mutation of KeyStroke: a key that is not handled ends the menu.
KeyStroke_other_key_exits(k) ==
  /\ pc = "read"
  /\ k # "INTRO"
  /\ is_str(k) /\ searching(searching_buffer) => Len(searching_buffer) < MaxBuf
  /\ LET h == Handle(selected_option, searching_buffer, k)
     IN  /\ selected_option' = h.sel
         /\ searching_buffer' = h.buf
         /\ calls' = h.cur \o
                     << delete_all_lines(h.buf, terminal_last_size[1]),
                        print_lines(printable_options(options, h.buf, h.sel), h.buf) >>
  /\ key' = k
  /\ pc' = (IF k = "OTHER" THEN "returned" ELSE "poll")
  /\ downs' = IF k = "ARROW_DOWN" /\ downs \in 0 .. (MaxDowns - 1)
                THEN downs + 1 ELSE Untracked
  /\ UNCHANGED << config, terminal_last_size, terminal_size, result, inits,
                  deinits, shows, raised >>

\* Mutation of KeyStroke: the new frame is printed before the old one is erased.
KeyStroke_prints_before_erase(k) ==
  /\ pc = "read"
  /\ k # "INTRO"
  /\ is_str(k) /\ searching(searching_buffer) => Len(searching_buffer) < MaxBuf
  /\ LET h == Handle(selected_option, searching_buffer, k)
     IN  /\ selected_option' = h.sel
         /\ searching_buffer' = h.buf
         /\ calls' = h.cur \o
                     << print_lines(printable_options(options, h.buf, h.sel), h.buf),
                        delete_all_lines(h.buf, terminal_last_size[1]) >>
  /\ key' = k
  /\ pc' = "poll"
  /\ downs' = IF k = "ARROW_DOWN" /\ downs \in 0 .. (MaxDowns - 1)
                THEN downs + 1 ELSE Untracked
  /\ UNCHANGED << config, terminal_last_size, terminal_size, result, inits,
                  deinits, shows, raised >>

\* Lines 103-135 for a key other than INTRO.
KeyStroke(k) ==
  /\ pc = "read"
  /\ k # "INTRO"
  /\ is_str(k) /\ searching(searching_buffer) => Len(searching_buffer) < MaxBuf
  /\ LET h == Handle(selected_option, searching_buffer, k)
     IN  /\ selected_option' = h.sel
         /\ searching_buffer' = h.buf
         /\ calls' = h.cur \o
                     << delete_all_lines(h.buf, terminal_last_size[1]),
                        print_lines(printable_options(options, h.buf, h.sel), h.buf) >>
  /\ key' = k
  /\ pc' = "poll"
  /\ downs' = IF k = "ARROW_DOWN" /\ downs \in 0 .. (MaxDowns - 1)
                THEN downs + 1 ELSE Untracked
  /\ UNCHANGED << config, terminal_last_size, terminal_size, result, inits,
                  deinits, shows, raised >>

\* Lines 105-115 and 136-137: INTRO erases, releases the key source, returns.
Confirm ==
  /\ pc = "read"
  /\ key' = "INTRO"
  /\ calls' = << IF clear_on_exit
                   THEN delete_all_lines(searching_buffer, terminal_last_size[1])
                   ELSE delete_lines(terminal_size[1] - Len(options) - 1) >>
  /\ result' = IF Len(printable_options(options, searching_buffer, selected_option)) # 0
                 THEN Index(selected_option)
                 ELSE NoSelection
  /\ deinits' = deinits + 2
  /\ pc' = "returned"
  /\ UNCHANGED << config, selected_option, searching_buffer, terminal_last_size,
                  terminal_size, inits, shows, raised, downs >>

\* Mutation of ReadFails: the failed read is swallowed and the loop goes on.
ReadFails_retries ==
  /\ pc = "read"
  /\ raised' = "readch"
  /\ calls' = <<>>
  /\ pc' = "poll"
  /\ UNCHANGED << config, selected_option, searching_buffer, terminal_last_size,
                  terminal_size, key, result, inits, deinits, shows, downs >>

\* Line 103 when readch raises: finally deinit.
ReadFails ==
  /\ pc = "read"
  /\ raised' = "readch"
  /\ calls' = <<>>
  /\ deinits' = deinits + 1
  /\ pc' = "failed"
  /\ UNCHANGED << config, selected_option, searching_buffer, terminal_last_size,
                  terminal_size, key, result, inits, shows, downs >>

\* Lines 117-135 when a Line Renderer call of the handler raises.
KeyStrokeFails(k, point) ==
  /\ pc = "read"
  /\ k # "INTRO"
  /\ is_str(k) /\ searching(searching_buffer) => Len(searching_buffer) < MaxBuf
  /\ LET d == Dispatch(selected_option, searching_buffer, k)
         h == Handle(selected_option, searching_buffer, k)
     IN  CASE point = "cursor_backwards" ->
                /\ d.cur # <<>>
                /\ selected_option' = d.sel
                /\ searching_buffer' = d.buf
                /\ calls' = <<>>
           [] point = "delete_all_lines" ->
                /\ selected_option' = h.sel
                /\ searching_buffer' = h.buf
                /\ calls' = h.cur
           [] point = "print_lines" ->
                /\ selected_option' = h.sel
                /\ searching_buffer' = h.buf
                /\ calls' = h.cur \o << delete_all_lines(h.buf, terminal_last_size[1]) >>
  /\ key' = k
  /\ raised' = point
  /\ deinits' = deinits + 1
  /\ pc' = "failed"
  /\ downs' = Untracked
  /\ UNCHANGED << config, terminal_last_size, terminal_size, result, inits, shows >>

\* Lines 105-111 when the erase on INTRO raises: finally deinit, no return value.
ConfirmFails ==
  /\ pc = "read"
  /\ key' = "INTRO"
  /\ raised' = (IF clear_on_exit THEN "delete_all_lines" ELSE "delete_lines")
  /\ calls' = <<>>
  /\ deinits' = deinits + 1
  /\ pc' = "failed"
  /\ UNCHANGED << config, selected_option, searching_buffer, terminal_last_size,
                  terminal_size, result, inits, shows, downs >>

\* The user resizes the terminal.
Resize ==
  /\ \E g \in Geometries \ {terminal_size} : terminal_size' = g
  /\ UNCHANGED << config, selected_option, searching_buffer, terminal_last_size,
                  pc, key, result, inits, deinits, calls, shows, raised, downs >>

FailPoints == {"cursor_backwards", "delete_all_lines", "print_lines"}

Next ==
  \/ ShowBegin
  \/ ShowBeginFails
  \/ Poll
  \/ PollFails
  \/ \E k \in Keys : KeyStroke(k)
  \/ Confirm
  \/ ReadFails
  \/ \E k \in Keys, point \in FailPoints : KeyStrokeFails(k, point)
  \/ ConfirmFails
  \/ Resize

Spec == Init /\ [][Next]_vars

\* The loop makes progress (Poll is a step of the program alone) and the key
\* stream delivers INTRO at some time a key is awaited.
SpecLive == Spec /\ WF_vars(Poll) /\ SF_vars(Confirm)

\* The runs in which the first frame of every show() is printed.
NextFirstFrameDrawn ==
  \/ ShowBegin
  \/ Poll
  \/ PollFails
  \/ \E k \in Keys : KeyStroke(k)
  \/ Confirm
  \/ ReadFails
  \/ \E k \in Keys, point \in FailPoints : KeyStrokeFails(k, point)
  \/ ConfirmFails
  \/ Resize

SpecFirstFrameDrawn == Init /\ [][NextFirstFrameDrawn]_vars

\* The menus constructed with default_option = 0.
InitDefaultZero == Init /\ default_option = 0

SpecDefaultZero == InitDefaultZero /\ [][Next]_vars

\* ============================================================== properties
visible == available_options(options, searching_buffer)

\* s begins with p, character by character.
starts_with(p, s) == Len(p) <= Len(s) /\ SubSeq(s, 1, Len(p)) = p

\* The options a literal, case-sensitive prefix filter keeps for a buffer.
prefix_filter(buffer) ==
  IF buffer = <<>> THEN options
  ELSE SelectSeq(options, LAMBDA o : starts_with(Tail(buffer), o))

\* The option text inside a printed line.
text_of(line) == SelectSeq(line, LAMBDA t : t \notin {"PRECHAR", "HIGHLIGHT", "ENDC"})

\* Positions (from 0) of the highlighted lines of a printed frame.
highlighted(lines) == { i - 1 : i \in { j \in DOMAIN lines : lines[j][2] = "HIGHLIGHT" } }

\* default_option brought into 0 .. len(options)-1.
clamped_default ==
  IF default_option < 0 THEN 0
  ELSE IF default_option > Len(options) - 1 THEN Len(options) - 1
  ELSE default_option

\* A step of the program, as opposed to a resize of the terminal.
ProgramStep == pc' # pc \/ shows' # shows

\* A key other than INTRO was handled to the end (lines 117-135).
KeyHandled == pc = "read" /\ pc' = "poll"

TypeOK ==
  /\ selected_option \in Int
  /\ searching_buffer \in Seq(Chars \cup {"/"})
  /\ Len(searching_buffer) <= MaxBuf
  /\ pc \in {"idle", "poll", "read", "returned", "failed"}
  /\ key \in Keys \cup {""}
  /\ deinits \in 0 .. 2
  /\ shows \in 0 .. MaxShows
  /\ downs \in Untracked .. MaxDowns

\* C1: right after construction, before any key event, the selection index is
\* default_option clamped into [0, len(options)-1].
C1_IndexAfterConstruction ==
  (shows = 0 /\ Len(options) >= 1) => selected_option = clamped_default

\* C2: show returns None exactly when the visible list is empty at confirm
\* time; otherwise it returns the selection index, which is the position of the
\* highlighted entry and lies in 0 .. visibleCount-1.
C2_ConfirmResult ==
  pc = "returned" =>
    /\ (result = NoSelection) <=> (Len(visible) = 0)
    /\ result # NoSelection =>
         /\ result = Index(selected_option)
         /\ 0 <= result.value
         /\ result.value <= Len(visible) - 1
         /\ highlighted(printable_options(options, searching_buffer, selected_option))
              = {result.value}

C2_Witness ==
  /\ pc = "returned"
  /\ Len(searching_buffer) >= 2
  /\ result = NoSelection

\* C3: arrows saturate and never wrap.  From a valid index i among n >= 1
\* visible entries ARROW_DOWN gives min(i+1, n-1) and ARROW_UP max(i-1, 0);
\* ARROW_DOWN then ARROW_UP returns to i when i < n-1; k ARROW_DOWNs from
\* index 0 without a search, then INTRO, return min(k, n-1).
C3_NavStep ==
  LET n == Len(visible)
      i == selected_option
  IN  (KeyHandled /\ n >= 1 /\ 0 <= i /\ i <= n - 1) =>
        /\ key' = "ARROW_DOWN" => selected_option' = (IF i + 1 < n - 1 THEN i + 1 ELSE n - 1)
        /\ key' = "ARROW_UP" => selected_option' = (IF i - 1 > 0 THEN i - 1 ELSE 0)

C3_RoundTrip ==
  (pc = "read" /\ 0 <= selected_option /\ selected_option < Len(visible) - 1) =>
    LET down == Handle(selected_option, searching_buffer, "ARROW_DOWN")
        up == Handle(down.sel, down.buf, "ARROW_UP")
    IN  down.sel = selected_option + 1 /\ up.sel = selected_option

C3_DownsThenConfirm ==
  (pc = "returned" /\ downs >= 0 /\ Len(options) >= 1) =>
    result = Index(IF downs < Len(options) - 1 THEN downs ELSE Len(options) - 1)

C3_ArrowsSaturate == [][C3_NavStep]_vars /\ []C3_RoundTrip /\ []C3_DownsThenConfirm

C3_Witness ==
  /\ pc = "returned"
  /\ Len(options) > 1
  /\ downs > Len(options) - 1
  /\ result = Index(Len(options) - 1)

\* C4: while searching with buffer "/" + p the visible options are exactly the
\* options that start with p as a literal, case-sensitive prefix, in their
\* original order with duplicates kept; p = "" keeps every option; when not
\* searching the visible options are the whole list.  Every printed frame
\* shows exactly these options.
C4_FilterIsLiteralPrefix ==
  /\ visible = prefix_filter(searching_buffer)
  /\ searching_buffer = <<"/">> => visible = options
  /\ \A c \in DOMAIN calls :
        calls[c].fn = "print_lines" =>
          [ j \in DOMAIN calls[c].lines |-> text_of(calls[c].lines[j]) ]
            = prefix_filter(calls[c].buf)

C4_Witness ==
  /\ searching_buffer = <<"/", ".">>
  /\ Len(options) = 4
  /\ \E c \in DOMAIN calls :
        /\ calls[c].fn = "print_lines"
        /\ Len(calls[c].lines) = 1
        /\ text_of(calls[c].lines[1]) = <<".", "a">>

\* C5: from a non-searching state SLASH then BACKSPACE leaves the search
\* buffer empty, the visible options equal to the whole list and the
\* selection index where it was before the SLASH.
C5_SlashStep ==
  (KeyHandled /\ key' = "SLASH" /\ searching_buffer = <<>>) =>
    /\ searching_buffer' = <<"/">>
    /\ selected_option' = selected_option
    /\ available_options(options', searching_buffer') = options

C5_BackspaceStep ==
  (KeyHandled /\ key' = "BACKSPACE" /\ searching_buffer = <<"/">>) =>
    /\ searching_buffer' = <<>>
    /\ selected_option' = selected_option
    /\ available_options(options', searching_buffer') = options

C5_BothKeys ==
  (pc = "read" /\ searching_buffer = <<>>) =>
    LET slash == Handle(selected_option, searching_buffer, "SLASH")
        back == Handle(slash.sel, slash.buf, "BACKSPACE")
    IN  /\ slash.buf = <<"/">>
        /\ back.buf = <<>>
        /\ back.sel = selected_option
        /\ available_options(options, back.buf) = options

C5_SlashBackspace == [][C5_SlashStep /\ C5_BackspaceStep]_vars /\ []C5_BothKeys

C5_Witness ==
  /\ pc = "poll"
  /\ key = "BACKSPACE"
  /\ searching_buffer = <<>>
  /\ selected_option >= 1
  /\ calls # <<>>
  /\ calls[1].fn = "cursor_backwards"

\* C6: on every path by which show stops (return or failure, the failure of
\* the first render included) the key source has been released by deinit().
C6_ReleasedOnEveryExit ==
  pc \in {"returned", "failed"} => deinits >= 1

\* C7: no erase is issued with a line count taken from a geometry snapshot
\* that differs from the terminal's geometry at that moment.
C7_NoStaleErase ==
  [][ ProgramStep =>
        \A c \in DOMAIN calls' :
          calls'[c].fn = "delete_all_lines" => calls'[c].n = terminal_size[1] ]_vars

\* C8: every show() starts with the selection index equal to the configured
\* default and with an empty search buffer, whatever earlier calls consumed.
C8_ShowStartsFresh ==
  (pc = "poll" /\ key = "" /\ Len(options) >= 1) =>
    /\ selected_option = clamped_default
    /\ searching_buffer = <<>>

\* C9: wherever the loop waits for a key and in every frame it draws,
\* 0 <= selectedIndex < max(1, visibleCount); with an empty visible list the
\* index is 0.
C9_IndexInRange ==
  pc \in {"poll", "read"} =>
    /\ 0 <= selected_option
    /\ selected_option < (IF Len(visible) > 1 THEN Len(visible) ELSE 1)
    /\ \A c \in DOMAIN calls :
          (calls[c].fn = "print_lines" /\ Len(calls[c].lines) > 0) =>
            highlighted(calls[c].lines) = {selected_option}

C9_Witness ==
  /\ pc = "read"
  /\ key \in Chars
  /\ Len(options) > 1
  /\ Len(visible) = 0
  /\ selected_option = 0

\* C10: the search buffer is empty or begins with "/"; once non-empty it
\* becomes empty only through a BACKSPACE that removes the marker as its last
\* character; SLASH sets the buffer to "/" only when it was empty and leaves a
\* buffer that holds a pattern alone.
C10_MarkerFirst ==
  searching_buffer = <<>> \/ Head(searching_buffer) = "/"

C10_BufferStep ==
  /\ (searching_buffer # <<>> /\ searching_buffer' = <<>>) =>
        (key' = "BACKSPACE" /\ searching_buffer = <<"/">>)
  /\ (ProgramStep /\ pc = "read" /\ key' = "SLASH") =>
        searching_buffer' = (IF searching_buffer = <<>> THEN <<"/">> ELSE searching_buffer)

C10_SearchBuffer == []C10_MarkerFirst /\ [][C10_BufferStep]_vars

C10_Witness ==
  /\ pc = "poll"
  /\ key = "SLASH"
  /\ Len(searching_buffer) >= 2

\* C11: a change of the filter changes the selection index only through the
\* clamp: after the key the index is the previous index clamped into the new
\* visible range, and an index lowered by a shrinking filter is not restored
\* when the filter widens again.
C11_FilterStep ==
  LET n == Len(available_options(options', searching_buffer'))
  IN  (KeyHandled /\ searching_buffer' # searching_buffer) =>
        selected_option' = (IF n = 0 THEN 0
                            ELSE IF selected_option > n - 1 THEN n - 1
                            ELSE selected_option)

C11_NotRestored ==
  (pc = "read" /\ searching(searching_buffer) /\ Len(searching_buffer) < MaxBuf) =>
    \A c \in Chars :
      LET typed == Handle(selected_option, searching_buffer, c)
          erased == Handle(typed.sel, typed.buf, "BACKSPACE")
      IN  /\ typed.sel <= selected_option
          /\ erased.buf = searching_buffer
          /\ erased.sel = typed.sel

C11_FilterClamps == [][C11_FilterStep]_vars /\ []C11_NotRestored

C11_Witness ==
  /\ pc = "poll"
  /\ key = "BACKSPACE"
  /\ Len(options) = 4
  /\ searching_buffer = <<"/">>
  /\ selected_option = 0
  /\ calls # <<>>
  /\ calls[1].fn = "cursor_backwards"

\* C12: while not searching, a key other than INTRO, ARROW_UP, ARROW_DOWN and
\* SLASH (BACKSPACE and characters included) leaves the selection index, the
\* search buffer and the visible options unchanged.
C12_IgnoredStep ==
  (pc = "read" /\ ProgramStep /\ ~searching(searching_buffer)
     /\ raised' # "readch"
     /\ key' \in (Keys \ {"INTRO", "ARROW_UP", "ARROW_DOWN", "SLASH"})) =>
    /\ selected_option' = selected_option
    /\ searching_buffer' = searching_buffer
    /\ available_options(options', searching_buffer') = visible

C12_IgnoredKeys == [][C12_IgnoredStep]_vars

C12_Witness ==
  /\ pc = "poll"
  /\ key \in Chars
  /\ searching_buffer = <<>>
  /\ selected_option >= 1

\* Positions in a sequence of Line Renderer calls of the calls of one function.
calls_of(cs, fn) == { i \in DOMAIN cs : cs[i].fn = fn }

\* C13: for every key other than INTRO the loop issues exactly one
\* delete_all_lines followed by exactly one print_lines, after the clamp, and
\* print_lines receives the visible options and the search buffer of the state
\* after the key; inside the loop no frame is printed without an erase or a
\* clear_terminal right before it.
C13_RedrawStep ==
  KeyHandled =>
    LET n == Len(calls')
    IN  /\ n >= 2
        /\ calls_of(calls', "delete_all_lines") = {n - 1}
        /\ calls_of(calls', "print_lines") = {n}
        /\ calls_of(calls', "delete_lines") = {}
        /\ calls_of(calls', "clear_terminal") = {}
        /\ calls'[n - 1].buf = searching_buffer'
        /\ calls'[n].buf = searching_buffer'
        /\ calls'[n].lines
             = printable_options(options', searching_buffer', selected_option')
        /\ selected_option' = clamp(selected_option', 0, Len(calls'[n].lines) - 1)

C13_NoOverprint ==
  (ProgramStep /\ pc \in {"poll", "read"}) =>
    \A i \in calls_of(calls', "print_lines") :
      i > 1 /\ calls'[i - 1].fn \in {"delete_all_lines", "clear_terminal"}

C13_EraseThenRedraw == [][C13_RedrawStep /\ C13_NoOverprint]_vars

C13_Witness ==
  /\ pc = "poll"
  /\ key = "BACKSPACE"
  /\ Len(calls) = 3
  /\ calls[2].fn = "delete_all_lines"
  /\ calls[3].fn = "print_lines"
  /\ calls[3].buf = searching_buffer

\* C14: on INTRO exactly one erase is issued and nothing is drawn after it:
\* delete_all_lines when clear_on_exit is set, otherwise delete_lines with the
\* terminal height minus the number of options drawn minus one, a count that
\* is never negative.
C14_ConfirmStep ==
  (pc = "read" /\ pc' = "returned") =>
    /\ Len(calls') = 1
    /\ IF clear_on_exit
         THEN /\ calls'[1].fn = "delete_all_lines"
              /\ calls'[1].buf = searching_buffer
         ELSE /\ calls'[1].fn = "delete_lines"
              /\ calls'[1].n = terminal_size[1] - Len(visible) - 1
              /\ calls'[1].n >= 0

C14_ConfirmErase == [][C14_ConfirmStep]_vars

\* show() is inside its loop.
Running == pc \in {"poll", "read"}

\* C15: the loop is left only by INTRO or by a failure; every other key keeps
\* show() running and waiting for the next key; when the key stream delivers
\* INTRO and nothing fails, show() returns.
C15_ExitStep ==
  /\ (Running /\ ~Running') =>
        \/ pc' = "returned" /\ key' = "INTRO" /\ raised' = ""
        \/ pc' = "failed" /\ raised' # ""
  /\ (pc = "read" /\ ProgramStep /\ raised' = "" /\ key' # "INTRO") => pc' = "poll"
  /\ (pc = "poll" /\ ProgramStep /\ raised' = "") => pc' = "read"

C15_LoopExit == [][C15_ExitStep]_vars /\ (Running ~> (pc = "returned" \/ raised # ""))

C15_Witness ==
  /\ pc = "returned"
  /\ key = "INTRO"
  /\ raised = ""
  /\ downs >= 2

\* C16: a failure of the geometry probe or of the key read inside the loop is
\* not retried: deinit() is called, the failure reaches the caller of show(),
\* and afterwards no key is read and no erase or frame is issued.
C16_FailureSurfaces ==
  raised \in {"get_terminal_size", "readch"} =>
    /\ pc = "failed"
    /\ inits = 1
    /\ deinits = 1
    /\ result = Pending

C16_FailureStep ==
  /\ (ProgramStep /\ raised = "" /\ raised' \in {"get_terminal_size", "readch"}) =>
        /\ calls' = <<>>
        /\ key' = key
        /\ selected_option' = selected_option
        /\ searching_buffer' = searching_buffer
  /\ (ProgramStep /\ pc = "failed") => shows' = shows + 1

C16_NoRetry == []C16_FailureSurfaces /\ [][C16_FailureStep]_vars

C16_Witness ==
  /\ pc = "failed"
  /\ raised = "readch"
  /\ key \in Keys
  /\ deinits = 1
  /\ calls = <<>>

\* C17: BACKSPACE while searching removes exactly the last character of the
\* search buffer and moves the cursor back once, by 7 columns when the removed
\* character is a tab and by 1 otherwise, the marker included; BACKSPACE while
\* not searching does not move the cursor.
C17_BackspaceStep ==
  (KeyHandled /\ key' = "BACKSPACE") =>
    IF searching(searching_buffer)
      THEN /\ searching_buffer' \o << searching_buffer[Len(searching_buffer)] >>
                = searching_buffer
           /\ calls_of(calls', "cursor_backwards") = {1}
           /\ calls'[1].times
                = (IF searching_buffer[Len(searching_buffer)] = "\t" THEN 7 ELSE 1)
      ELSE /\ searching_buffer' = searching_buffer
           /\ calls_of(calls', "cursor_backwards") = {}

C17_Backspace == [][C17_BackspaceStep]_vars

C17_Witness ==
  /\ pc = "poll"
  /\ key = "BACKSPACE"
  /\ searching_buffer = <<"/">>
  /\ calls # <<>>
  /\ calls[1] = cursor_backwards(7)

\* C18: within one show() the key source is initialised exactly once and
\* released exactly once, on the INTRO path and on the failure paths.
C18_OneInitOneRelease ==
  pc \in {"returned", "failed"} => (inits = 1 /\ deinits = 1)

\* C19: every frame passed to print_lines has one entry per visible option in
\* filtered order, each with the prechar in front and the style reset at the
\* end; a non-empty frame has exactly one highlighted entry, the one at the
\* selection index; computing a frame changes neither the options nor the
\* session state.
C19_FrameShape ==
  \A c \in calls_of(calls, "print_lines") :
    LET lines == calls[c].lines
        shown == available_options(options, calls[c].buf)
    IN  /\ calls[c].buf = searching_buffer
        /\ Len(lines) = Len(shown)
        /\ \A i \in DOMAIN lines :
              /\ Head(lines[i]) = "PRECHAR"
              /\ lines[i][Len(lines[i])] = "ENDC"
              /\ text_of(lines[i]) = shown[i]
              /\ Len(lines[i]) = Len(shown[i]) + (IF i - 1 = selected_option THEN 3 ELSE 2)
        /\ Len(lines) > 0 => highlighted(lines) = {selected_option}

C19_DrawingStep ==
  /\ options' = options
  /\ (ProgramStep /\ pc # "read") =>
        /\ selected_option' = selected_option
        /\ searching_buffer' = searching_buffer

C19_Frames == []C19_FrameShape /\ [][C19_DrawingStep]_vars

C19_Witness ==
  /\ pc = "poll"
  /\ searching_buffer = <<"/", "a">>
  /\ selected_option = 1
  /\ \E c \in calls_of(calls, "print_lines") :
        /\ Len(calls[c].lines) = 2
        /\ highlighted(calls[c].lines) = {1}

====
